---- MODULE Spec2Model ----
(***************************************************************************)
(* Model of get_twitch_vods.py: the OAuth token lifecycle (stored token,   *)
(* refresh grant, device-code grant), the request cache and the menu loop  *)
(* of main().  Text read from the console is a sequence of one-character   *)
(* strings; a timestamp is a number of seconds.                            *)
(***************************************************************************)
EXTENDS Integers, Sequences, FiniteSets, TLC

\* ------------------------------------------------------------------------
\* Bounds of the model
\* ------------------------------------------------------------------------
MaxRequests == 2
MaxTicks == 2
MaxPolls == 2
MaxIndex == 4         \* channels listed when parse_selection is applied on its own
MaxVods == 2          \* VODs given to filter_vods when it is applied on its own

\* ------------------------------------------------------------------------
\* Program constants
\* ------------------------------------------------------------------------
Margin == 60
HttpOk == 200
DaySecs == 86400

StartTime == 10 * DaySecs
Horizon == StartTime + MaxTicks

Min(a, b) == IF a < b THEN a ELSE b

\* ------------------------------------------------------------------------
\* Text: str.strip, str.split, int(), str.lower, ordering of strings
\* ------------------------------------------------------------------------
Digits == <<"0", "1", "2", "3", "4", "5", "6", "7", "8", "9">>
\* the characters of the model's texts, in code-point order
Alphabet == <<" ", "+", ",", "-">> \o Digits \o <<"A", "B", "a", "b", "x">>

IsDigit(c) == \E i \in 1..Len(Digits) : Digits[i] = c
DigitVal(c) == (CHOOSE i \in 1..Len(Digits) : Digits[i] = c) - 1
Ord(c) == CHOOSE i \in 1..Len(Alphabet) : Alphabet[i] = c

RECURSIVE lstrip(_)
lstrip(s) == IF s # <<>> /\ Head(s) = " " THEN lstrip(Tail(s)) ELSE s

RECURSIVE rstrip(_)
rstrip(s) ==
    IF s # <<>> /\ s[Len(s)] = " " THEN rstrip(SubSeq(s, 1, Len(s) - 1)) ELSE s

strip(s) == rstrip(lstrip(s))

RECURSIVE DigitsVal(_)
DigitsVal(s) ==
    IF s = <<>> THEN 0
    ELSE 10 * DigitsVal(SubSeq(s, 1, Len(s) - 1)) + DigitVal(s[Len(s)])

Unsigned(s) == IF s # <<>> /\ Head(s) \in {"-", "+"} THEN Tail(s) ELSE s

\* int(text) raises ValueError unless the stripped text is an optional sign
\* followed by at least one digit
int_ok(text) ==
    LET body == Unsigned(strip(text))
    IN  body # <<>> /\ \A i \in 1..Len(body) : IsDigit(body[i])

int(text) ==
    LET t == strip(text)
    IN  IF t # <<>> /\ Head(t) = "-" THEN 0 - DigitsVal(Unsigned(t))
        ELSE DigitsVal(Unsigned(t))

\* ------------------------------------------------------------------------
\* Time: utcnow, iso, datetime.fromisoformat, timedelta(days=...)
\* ------------------------------------------------------------------------
\* an ISO-8601 text names a calendar day and a time of day
iso(dt) == [date |-> dt \div DaySecs, time |-> dt % DaySecs]
fromisoformat(s) == s.date * DaySecs + s.time
timedelta(d) == d * DaySecs

\* ------------------------------------------------------------------------
\* Files: json.dumps / json.loads, Path.exists
\* ------------------------------------------------------------------------
\* a JSON document is a tree of numbers, strings, arrays and objects; an
\* object keeps its members in the order they were written
JNum(n) == [t |-> "num", v |-> n]
JStr(s) == [t |-> "str", v |-> s]
JArr(items) == [t |-> "arr", v |-> items]
JObj(members) == [t |-> "obj", v |-> members]
Member(k, node) == [key |-> k, value |-> node]

\* the value of the last member of an object with the key
RECURSIVE Lookup(_, _, _)
Lookup(members, k, i) ==
    IF members[i].key = k THEN members[i].value ELSE Lookup(members, k, i - 1)

\* the Python value json.loads builds for a document: a dict, a list, an int
\* or a str
RECURSIVE FromJson(_)
FromJson(node) ==
    IF node.t = "obj"
    THEN [k \in {node.v[i].key : i \in 1..Len(node.v)} |->
             FromJson(Lookup(node.v, k, Len(node.v)))]
    ELSE IF node.t = "arr"
    THEN [i \in 1..Len(node.v) |-> FromJson(node.v[i])]
    ELSE node.v

\* a file holds no document (it does not exist) or one
NoFile == <<>>
json_dumps(node) == <<node>>
json_loads(f) == FromJson(f[1])
exists(f) == f # NoFile

\* str.split(sep): the parts between the separators ("" gives one empty part)
RECURSIVE find(_, _, _)
find(s, c, i) ==
    IF i > Len(s) THEN 0 ELSE IF s[i] = c THEN i ELSE find(s, c, i + 1)

RECURSIVE split(_, _)
split(s, sep) ==
    LET i == find(s, sep, 1)
    IN  IF i = 0 THEN <<s>>
        ELSE <<SubSeq(s, 1, i - 1)>> \o split(SubSeq(s, i + 1, Len(s)), sep)

LowerChar(c) == IF c = "A" THEN "a" ELSE IF c = "B" THEN "b" ELSE c
lower(s) == [i \in 1..Len(s) |-> LowerChar(s[i])]

\* the order of str: by code point, a proper prefix first
RECURSIVE StrLess(_, _)
StrLess(a, b) ==
    IF a = <<>> THEN b # <<>>
    ELSE IF b = <<>> THEN FALSE
    ELSE IF Head(a) = Head(b) THEN StrLess(Tail(a), Tail(b))
    ELSE Ord(Head(a)) < Ord(Head(b))

RECURSIVE sorted(_)
sorted(S) ==
    IF S = {} THEN <<>>
    ELSE LET m == CHOOSE x \in S : \A y \in S \ {x} : StrLess(x, y)
         IN  <<m>> \o sorted(S \ {m})

\* dict.get(key, default)
get(d, k, default) == IF k \in DOMAIN d THEN d[k] ELSE default
\* truth value of a dict
truthy(d) == DOMAIN d # {}

\* ------------------------------------------------------------------------
\* The remote services the program talks to
\* ------------------------------------------------------------------------
\* token-endpoint answers (r.json() of an HTTP 200)
GrantShort == [access_token |-> "a1", expires_in |-> Margin + 1, refresh_token |-> "r1"]
GrantNoRefresh == [access_token |-> "a2", expires_in |-> Margin + 1]
GrantExpired == [access_token |-> "a3", expires_in |-> Margin, refresh_token |-> "r3"]
GrantLong == [access_token |-> "a4", expires_in |-> Margin * Margin, refresh_token |-> "r4"]

\* the body of a refused grant
ErrorBody == [status |-> 400, message |-> "authorization_pending"]

\* what the token endpoint of a server may answer to a grant request
TokenAnswers(srv) ==
    {[status |-> HttpOk, body |-> g] : g \in srv.grants}
    \cup {[status |-> ErrorBody.status, body |-> ErrorBody]}

\* the poll interval of the device-code answer
Intervals == {1}

chA == [broadcaster_id |-> "1", broadcaster_name |-> <<"A">>]
chB == [broadcaster_id |-> "2", broadcaster_name |-> <<"B">>]
cha == [broadcaster_id |-> "3", broadcaster_name |-> <<"a">>]
BroadcasterIds == {"1", "2", "3"}

\* a video object of the Helix videos listing
ApiVideo(n, t) ==
    [id |-> n, title |-> <<"t", n>>, url |-> <<"u", n>>, created_at |-> iso(t),
     type |-> "archive"]

DayAgo == StartTime - DaySecs
ThreeDaysAgo == StartTime - 3 * DaySecs
FiveDaysAgo == StartTime - 5 * DaySecs

\* one followed channel with a 1-day-old and a 5-days-old broadcast
ServerOneChannel ==
    [user_id |-> "u", followed |-> <<chA>>,
     videos |-> [b \in BroadcasterIds |->
                    IF b = "1" THEN <<ApiVideo("1", DayAgo), ApiVideo("2", FiveDaysAgo)>>
                    ELSE <<>>],
     grants |-> {GrantLong}]

\* three followed channels, two of them differing in case only, with
\* broadcasts about three days old and one a day old
ServerThreeChannels ==
    [user_id |-> "u", followed |-> <<chB, chA, cha>>,
     videos |-> [b \in BroadcasterIds |->
                    IF b = "2"
                    THEN <<ApiVideo("3", ThreeDaysAgo + 1), ApiVideo("4", ThreeDaysAgo)>>
                    ELSE IF b = "1"
                         THEN <<ApiVideo("5", FiveDaysAgo), ApiVideo("6", ThreeDaysAgo + 2)>>
                    ELSE <<ApiVideo("7", ThreeDaysAgo - 1), ApiVideo("8", DayAgo)>>],
     grants |-> {GrantLong}]

\* nobody followed; the token endpoint hands out short-lived tokens
ServerShortTokens ==
    [user_id |-> "u", followed |-> <<>>,
     videos |-> [b \in BroadcasterIds |-> <<>>],
     grants |-> {GrantShort, GrantExpired}]

Servers == {ServerOneChannel, ServerThreeChannels, ServerShortTokens}

\* ------------------------------------------------------------------------
\* Token handling
\* ------------------------------------------------------------------------
\* token["obtained_at"] = int(time.time())
Stamp(token, t) ==
    [k \in DOMAIN token \cup {"obtained_at"} |->
        IF k = "obtained_at" THEN t ELSE token[k]]

\* json.dumps of a token dict: its keys in the order they were set
TokenKeys == <<"access_token", "expires_in", "refresh_token", "obtained_at">>
EncToken(token) ==
    LET present == SelectSeq(TokenKeys, LAMBDA k : k \in DOMAIN token)
    IN  JObj([i \in 1..Len(present) |->
                Member(present[i],
                       IF present[i] \in {"expires_in", "obtained_at"}
                       THEN JNum(token[present[i]])
                       ELSE JStr(token[present[i]]))])

\* the file content save_token writes at time t
save_token(token, t) == json_dumps(EncToken(Stamp(token, t)))

\* load_token: <<>> for None, else <<the token>>
load_token(file) == IF exists(file) THEN <<json_loads(file)>> ELSE <<>>

\* faulty variant: the boundary instant counts as valid
token_valid_Inclusive(token, t) ==
    t <= get(token, "obtained_at", 0) + get(token, "expires_in", 0) - Margin

token_valid(token, t) ==
    t < get(token, "obtained_at", 0) + get(token, "expires_in", 0) - Margin

\* ------------------------------------------------------------------------
\* Cache handling
\* ------------------------------------------------------------------------
EmptyCache == [requests |-> <<>>]
\* faulty variant: the file is not read
load_cache_Fresh(file) == EmptyCache
load_cache(file) == IF exists(file) THEN json_loads(file) ELSE EmptyCache

\* json.dumps of the cache dict main builds: a VOD, a request, the cache
EncVod(v) ==
    JObj(<<Member("channel", JStr(v.channel)), Member("title", JStr(v.title)),
           Member("url", JStr(v.url)), Member("created_at", JStr(v.created_at))>>)
EncRequest(r) ==
    JObj(<<Member("id", JNum(r.id)), Member("requested_at", JStr(r.requested_at)),
           Member("since", JStr(r.since)),
           Member("timedelta_days", JNum(r.timedelta_days)),
           Member("vods", JArr([i \in 1..Len(r.vods) |-> EncVod(r.vods[i])]))>>)
EncCache(c) ==
    JObj(<<Member("requests",
                  JArr([i \in 1..Len(c.requests) |-> EncRequest(c.requests[i])]))>>)

\* faulty variant: only the newest request is written
save_cache_LastOnly(c) ==
    json_dumps(EncCache([requests |->
                            SubSeq(c.requests, Len(c.requests), Len(c.requests))]))
save_cache(c) == json_dumps(EncCache(c))

\* ------------------------------------------------------------------------
\* Channel selection
\* ------------------------------------------------------------------------
list_channels(vs) == sorted({vs[i].channel : i \in 1..Len(vs)})

\* one comma-separated part of a selection, stripped and not empty
PartOk(part) ==
    LET d == find(part, "-", 1)
    IN  IF d > 0
        THEN int_ok(SubSeq(part, 1, d - 1)) /\ int_ok(SubSeq(part, d + 1, Len(part)))
        ELSE int_ok(part)

\* faulty variant: the end of a range is left out
PartIndexes_Exclusive(part) ==
    LET d == find(part, "-", 1)
    IN  IF d > 0
        THEN int(SubSeq(part, 1, d - 1)) .. (int(SubSeq(part, d + 1, Len(part))) - 1)
        ELSE {int(part)}

PartIndexes(part) ==
    LET d == find(part, "-", 1)
    IN  IF d > 0
        THEN int(SubSeq(part, 1, d - 1)) .. int(SubSeq(part, d + 1, Len(part)))
        ELSE {int(part)}

Parts(selection) ==
    LET ps == split(selection, ",")
    IN  {strip(ps[i]) : i \in 1..Len(ps)} \ {<<>>}

\* parse_selection raises ValueError unless every part parses
parse_selection_ok(selection) == \A part \in Parts(selection) : PartOk(part)

\* the indexes parse_selection returns (a list built from a set: its order is
\* not used by the caller)
parse_selection(selection, max_index) ==
    {i \in UNION {PartIndexes(part) : part \in Parts(selection)} :
        1 <= i /\ i <= max_index}

choose_channels_ok(vs, text) ==
    list_channels(vs) = <<>> \/ strip(text) = <<>> \/ parse_selection_ok(strip(text))

\* the channel names choose_channels returns; {} stands for None and for []
choose_channels(vs, text) ==
    LET channels == list_channels(vs)
        selection == strip(text)
    IN  IF channels = <<>> \/ selection = <<>> THEN {}
        ELSE {channels[i] : i \in parse_selection(selection, Len(channels))}

\* faulty variant: the names are compared as they are
Keeps_CaseSensitive(v, include) == v.channel \in include

Keeps(v, include) == lower(v.channel) \in {lower(c) : c \in include}

filter_vods(vs, include) ==
    IF include = {} THEN vs ELSE SelectSeq(vs, LAMBDA v : Keeps(v, include))

\* ------------------------------------------------------------------------
\* Console output of one handler
\* ------------------------------------------------------------------------
Say(m) == [msg |-> m, vods |-> <<>>, lines |-> <<>>]
Quiet == Say("")

\* the first request with the id, 0 if there is none
RECURSIVE FindRequest(_, _, _)
FindRequest(requests, req_id, i) ==
    IF i > Len(requests) THEN 0
    ELSE IF requests[i].id = req_id THEN i
    ELSE FindRequest(requests, req_id, i + 1)

\* faulty variant: an id that no request carries is an error
show_request_ok_FoundOnly(c, req_id, text) ==
    LET i == FindRequest(c.requests, req_id, 1)
    IN  i # 0 /\ choose_channels_ok(c.requests[i].vods, text)

show_request_ok(c, req_id, text) ==
    LET i == FindRequest(c.requests, req_id, 1)
    IN  i = 0 \/ choose_channels_ok(c.requests[i].vods, text)

\* what show_request prints: the VODs shown, or "Request not found."
show_request(c, req_id, text) ==
    LET i == FindRequest(c.requests, req_id, 1)
    IN  IF i = 0 THEN Say("Request not found.")
        ELSE LET vs == c.requests[i].vods
                 include == choose_channels(vs, text)
             IN  [msg |-> "Showing", lines |-> <<>>,
                  vods |-> IF include # {} THEN filter_vods(vs, include) ELSE vs]

SummaryLine(r) ==
    [id |-> r.id, requested_at |-> r.requested_at, delta |-> r.timedelta_days,
     vods |-> Len(r.vods)]

print_cache_summary(c) ==
    IF c.requests = <<>> THEN Say("No saved requests.")
    ELSE [msg |-> "Saved requests:", vods |-> <<>>,
          lines |-> [i \in 1..Len(c.requests) |-> SummaryLine(c.requests[i])]]

\* ------------------------------------------------------------------------
\* Twitch API
\* ------------------------------------------------------------------------
helix_headers(token) == [Authorization |-> token.access_token]

Kept(v) == [title |-> v.title, url |-> v.url, created_at |-> v.created_at]
\* faulty variant: a broadcast created exactly at since is dropped
IsRecent_Strict(v, since_dt) == fromisoformat(v.created_at) > since_dt
IsRecent(v, since_dt) == fromisoformat(v.created_at) >= since_dt

\* get_recent_vods on the listing `data` the videos call answered
RECURSIVE get_recent_vods(_, _)
get_recent_vods(data, since_dt) ==
    IF data = <<>> THEN <<>>
    ELSE (IF IsRecent(Head(data), since_dt) THEN <<Kept(Head(data))>> ELSE <<>>)
         \o get_recent_vods(Tail(data), since_dt)

\* {"channel": ch["broadcaster_name"], **v} for each v of recent
Labelled(ch, recent) ==
    [i \in 1..Len(recent) |->
        [channel |-> ch.broadcaster_name, title |-> recent[i].title,
         url |-> recent[i].url, created_at |-> recent[i].created_at]]

\* ------------------------------------------------------------------------
\* State
\* ------------------------------------------------------------------------
VARIABLES
    pc,          \* where the process is: "menu", a step of a new request,
                 \* "pause", "done" (quit) or "crashed" (unhandled exception)
    now,         \* the clock read by time.time() and utcnow()
    server,      \* the remote services
    tokenFile,   \* content of TOKEN_FILE, NoFile if it does not exist
    cacheFile,   \* content of CACHE_FILE, NoFile if it does not exist
    cache,       \* main: cache
    days,        \* main: days
    since,       \* main: since
    token,       \* main: token (<<>> before get_token returned)
    stored,      \* get_token: token (<<>> for None)
    interval,    \* device_auth: r["interval"]
    followed,    \* main: followed
    done,        \* main: how many channels of followed the for loop has done
    vods,        \* main: vods
    out,         \* what the current handler printed
    dayText,     \* history: the text entered at "How many days back?"
    netLog,      \* history: the network requests of the current new request
    polls,       \* history: polls of the token endpoint answered non-200
    tokenWrites, \* history: writes of TOKEN_FILE during the current new request
    path,        \* history: which branch of get_token returned
    grant,       \* history: the body of the last HTTP 200 of the token endpoint
    call,        \* a function of the channel selector applied on its own
    fetched,     \* history: the broadcaster ids of the videos calls of the current
                 \* new request, in the order of the calls
    typed        \* history: what was entered at the prompts of the handler that
                 \* ran last (menu choice, request id, channel selection)

vars == <<pc, now, server, tokenFile, cacheFile, cache, days, since, token, stored,
          interval, followed, done, vods, out, dayText, netLog, polls, tokenWrites,
          path, grant, call, fetched, typed>>

files == <<tokenFile, cacheFile>>
locals == <<days, since, token, stored, interval, followed, done, vods>>
history == <<dayText, netLog, polls, tokenWrites, path, grant, fetched>>

\* ------------------------------------------------------------------------
\* What the user types
\* ------------------------------------------------------------------------
DayTexts == {<<" ", "3">>, <<"-", "1">>, <<"x">>, <<>>}
IdTexts == {<<Digits[n + 1]>> : n \in 0..(MaxRequests + 1)} \cup {<<"x">>}
Selections == {<<>>, <<"2">>, <<"1", "-", "2">>, <<" ", "9">>, <<"x">>}

\* ------------------------------------------------------------------------
\* Initial state: the process has started and main has loaded the cache
\* ------------------------------------------------------------------------
OldRequest ==
    [id |-> 1, requested_at |-> iso(DayAgo), since |-> iso(DayAgo - timedelta(3)),
     timedelta_days |-> 3,
     vods |-> <<[channel |-> <<"B">>, title |-> <<"t", "0">>, url |-> <<"u", "0">>,
                 created_at |-> iso(DayAgo - 1)]>>]

InitCacheFiles == {NoFile, save_cache([requests |-> <<OldRequest>>])}
\* no token file, or the one an earlier run left when it ended at StartTime
InitTokenFiles(srv) ==
    IF GrantLong \in srv.grants THEN {save_token(GrantLong, StartTime)}
    ELSE {NoFile, save_token(GrantShort, StartTime), save_token(GrantNoRefresh, StartTime)}

\* no function is being applied on its own
NoCall == [fn |-> "none"]

\* nothing entered: id and selection are <<>> when their prompt was not
\* shown, else <<the text entered>>
NoInput == [choice |-> "", id |-> <<>>, selection |-> <<>>]

\* show_request(c, req_id) reaches the input() of choose_channels
Asked(c, req_id) ==
    LET i == FindRequest(c.requests, req_id, 1)
    IN  i # 0 /\ list_channels(c.requests[i].vods) # <<>>

\* the entries of a handler that calls show_request(c, req_id)
Typed(choice, id, c, req_id, text) ==
    [choice |-> choice, id |-> id,
     selection |-> IF Asked(c, req_id) THEN <<text>> ELSE <<>>]

Init ==
    /\ call = NoCall /\ typed = NoInput
    /\ pc = "menu"
    /\ now = StartTime
    /\ server \in Servers
    /\ tokenFile \in InitTokenFiles(server)
    /\ cacheFile \in InitCacheFiles
    /\ cache = load_cache(cacheFile)
    /\ days = 0 /\ since = 0 /\ token = <<>> /\ stored = <<>> /\ interval = 0
    /\ followed = <<>> /\ done = 0 /\ vods = <<>>
    /\ out = Quiet
    /\ dayText = <<>> /\ netLog = <<>> /\ polls = 0 /\ tokenWrites = 0
    /\ path = "" /\ grant = <<>> /\ fetched = <<>>

ResetLocals ==
    /\ days' = 0 /\ since' = 0 /\ token' = <<>> /\ stored' = <<>> /\ interval' = 0
    /\ followed' = <<>> /\ done' = 0 /\ vods' = <<>>

ResetHistory ==
    /\ dayText' = <<>> /\ netLog' = <<>> /\ polls' = 0 /\ tokenWrites' = 0
    /\ path' = "" /\ grant' = <<>> /\ fetched' = <<>>

\* an unhandled exception ends the process: its memory is gone, the files stay
\* (of the history, the day count entered and the videos calls made are kept:
\* they tell where the process ended)
Crash ==
    /\ pc' = "crashed"
    /\ ResetLocals
    /\ netLog' = <<>> /\ polls' = 0 /\ tokenWrites' = 0 /\ path' = "" /\ grant' = <<>>
    /\ fetched' = fetched

\* ------------------------------------------------------------------------
\* Time passes
\* ------------------------------------------------------------------------
\* the steps that read the clock (time.time, time.sleep, utcnow)
ClockReaders == {"menu", "get_token", "refresh_token", "poll", "append"}

\* the clock advances; it is followed just before a step that reads it
Tick ==
    /\ pc \in ClockReaders
    /\ now < Horizon
    /\ now' = now + 1
    /\ UNCHANGED <<pc, server, call, typed, files, cache, locals, out, history>>

\* ------------------------------------------------------------------------
\* Token handling: get_token, refresh_token, device_auth
\* ------------------------------------------------------------------------
\* faulty variant: the validity test is inverted
Reusable_Inverted(loaded, t) ==
    loaded # <<>> /\ truthy(loaded[1]) /\ ~token_valid(loaded[1], t)

\* `if token and token_valid(token)` of get_token
Reusable(loaded, t) ==
    loaded # <<>> /\ truthy(loaded[1]) /\ token_valid(loaded[1], t)

\* `if token` of get_token and `"refresh_token" in token` of refresh_token
CanRefresh(loaded) ==
    loaded # <<>> /\ truthy(loaded[1]) /\ "refresh_token" \in DOMAIN loaded[1]

\* faulty variants: the status of the answer is not looked at, or never matches
RefreshGranted_AnyAnswer(status) == status = status
PollGranted_Never(status) == status # status
PollGranted_AnyAnswer(status) == status = status

\* `r.status_code == 200` of refresh_token
RefreshGranted(status) == status = HttpOk

\* `resp.status_code == 200` of device_auth
PollGranted(status) == status = HttpOk

\* get_token up to its first network request (or its return)
GetToken ==
    /\ pc = "get_token"
    /\ LET loaded == load_token(tokenFile)
       IN  IF Reusable(loaded, now)
           THEN /\ token' = loaded
                /\ path' = "stored"
                /\ pc' = "get_user_id"
                /\ UNCHANGED stored
           ELSE /\ stored' = loaded
                /\ pc' = IF CanRefresh(loaded) THEN "refresh_token" ELSE "device_auth"
                /\ UNCHANGED <<token, path>>
    /\ UNCHANGED <<now, server, call, typed, files, cache, days, since, interval, followed, done,
                   vods, out, dayText, netLog, polls, tokenWrites, grant, fetched>>

\* refresh_token: the refresh grant and its answer
RefreshToken(status, body) ==
    /\ pc = "refresh_token"
    /\ netLog' = Append(netLog, "refresh")
    /\ grant' = IF status = HttpOk THEN <<body>> ELSE grant
    /\ IF RefreshGranted(status)
       THEN /\ tokenFile' = save_token(body, now)
            /\ tokenWrites' = tokenWrites + 1
            /\ token' = <<Stamp(body, now)>>
            /\ path' = "refresh"
            /\ stored' = <<>>
            /\ pc' = "get_user_id"
       ELSE /\ pc' = "device_auth"
            /\ UNCHANGED <<tokenFile, tokenWrites, token, path, stored>>
    /\ UNCHANGED <<now, server, call, typed, cacheFile, cache, days, since, interval, followed,
                   done, vods, out, dayText, polls, fetched>>

\* device_auth: the device-code request and the prompt to authorize
DeviceAuth(i) ==
    /\ pc = "device_auth"
    /\ netLog' = Append(netLog, "device")
    /\ interval' = i
    /\ out' = Say("Authorize this app:")
    /\ pc' = "poll"
    /\ UNCHANGED <<now, server, call, typed, files, cache, days, since, token, stored, followed,
                   done, vods, dayText, polls, tokenWrites, path, grant, fetched>>

\* device_auth: one turn of the loop, time.sleep and one poll of the token
\* endpoint.  The clock is followed up to Horizon; the log holds the first
\* MaxPolls refused polls and the granted one.
Poll(status, body) ==
    /\ pc = "poll"
    /\ now' = Min(now + interval, Horizon)
    /\ netLog' = IF polls < MaxPolls \/ status = HttpOk
                 THEN Append(netLog, "poll") ELSE netLog
    /\ grant' = IF status = HttpOk THEN <<body>> ELSE grant
    /\ polls' = IF status = HttpOk THEN polls ELSE Min(polls + 1, MaxPolls)
    /\ IF PollGranted(status)
       THEN /\ tokenFile' = save_token(body, now')
            /\ tokenWrites' = tokenWrites + 1
            /\ token' = <<Stamp(body, now')>>
            /\ path' = "device"
            /\ stored' = <<>>
            /\ interval' = 0
            /\ pc' = "get_user_id"
       ELSE UNCHANGED <<pc, tokenFile, tokenWrites, token, path, stored, interval>>
    /\ UNCHANGED <<server, call, typed, cacheFile, cache, days, since, followed, done, vods, out,
                   dayText, fetched>>

\* ------------------------------------------------------------------------
\* main: the menu
\* ------------------------------------------------------------------------
\* choice "q"
Quit ==
    /\ pc = "menu"
    /\ pc' = "done"
    /\ out' = Say("Goodbye")
    /\ UNCHANGED <<now, server, call, typed, files, cache, locals, history>>

\* faulty variant: the oldest request is taken
LastId_Oldest(c) == c.requests[1].id
\* cache["requests"][-1]["id"]
LastId(c) == c.requests[Len(c.requests)].id

\* choice "1": show the last saved request
LoadLast(text) ==
    /\ pc = "menu"
    /\ IF cache.requests # <<>>
       THEN LET last_id == LastId(cache)
            IN  /\ typed' = Typed("1", <<>>, cache, last_id, text)
                /\ IF show_request_ok(cache, last_id, text)
                   THEN /\ pc' = "pause"
                        /\ out' = show_request(cache, last_id, text)
                        /\ UNCHANGED <<locals, history>>
                   ELSE /\ Crash
                        /\ out' = Say("ValueError")
                        /\ UNCHANGED dayText
       ELSE /\ typed' = [NoInput EXCEPT !.choice = "1"]
            /\ pc' = "pause"
            /\ out' = Say("No saved requests.")
            /\ UNCHANGED <<locals, history>>
    /\ UNCHANGED <<now, server, call, files, cache>>

\* choice "3": list all saved requests
ListRequests ==
    /\ pc = "menu"
    /\ typed' = [NoInput EXCEPT !.choice = "3"]
    /\ out' = print_cache_summary(cache)
    /\ pc' = "pause"
    /\ UNCHANGED <<now, server, call, files, cache, locals, history>>

\* choice "4": view a specific request
ViewRequest(idText, text) ==
    /\ pc = "menu"
    /\ typed' = IF int_ok(idText) THEN Typed("4", <<idText>>, cache, int(idText), text)
                ELSE [NoInput EXCEPT !.choice = "4", !.id = <<idText>>]
    /\ IF int_ok(idText) /\ show_request_ok(cache, int(idText), text)
       THEN /\ pc' = "pause"
            /\ out' = show_request(cache, int(idText), text)
            /\ UNCHANGED <<locals, history>>
       ELSE /\ Crash
            /\ out' = Say("ValueError")
            /\ UNCHANGED dayText
    /\ UNCHANGED <<now, server, call, files, cache>>

\* any other choice
InvalidChoice ==
    /\ pc = "menu"
    /\ out' = Say("Invalid choice.")
    /\ UNCHANGED <<pc, now, server, call, typed, files, cache, locals, history>>

\* pause() and back to the top of the loop
Pause ==
    /\ pc = "pause"
    /\ pc' = "menu"
    /\ out' = Quiet
    /\ ResetLocals
    /\ ResetHistory
    /\ typed' = NoInput
    /\ UNCHANGED <<now, server, call, files, cache>>

\* ------------------------------------------------------------------------
\* main: choice "2", a new request
\* ------------------------------------------------------------------------
\* the day count is read and since is computed
NewRequest(text) ==
    /\ pc = "menu"
    /\ Len(cache.requests) < MaxRequests
    /\ dayText' = <<text>>
    /\ IF int_ok(text)
       THEN /\ days' = int(text)
            /\ since' = now - timedelta(int(text))
            /\ pc' = "get_token"
            /\ out' = Quiet
            /\ UNCHANGED <<token, stored, interval, followed, done, vods, netLog,
                           polls, tokenWrites, path, grant, fetched>>
       ELSE /\ Crash
            /\ out' = Say("ValueError")
    /\ UNCHANGED <<now, server, call, typed, files, cache>>

\* helix_headers(token) and get_user_id; a token without "access_token" is a
\* KeyError
GetUserId ==
    /\ pc = "get_user_id"
    /\ IF "access_token" \in DOMAIN token[1]
       THEN /\ netLog' = Append(netLog, "users")
            /\ pc' = "get_followed"
            /\ UNCHANGED <<locals, out, polls, tokenWrites, path, grant, fetched>>
       ELSE /\ Crash
            /\ out' = Say("KeyError")
    /\ UNCHANGED <<now, server, call, typed, files, cache, dayText>>

GetFollowed ==
    /\ pc = "get_followed"
    /\ netLog' = Append(netLog, "followed")
    /\ followed' = server.followed
    /\ vods' = <<>>
    /\ done' = 0
    /\ pc' = IF server.followed = <<>> THEN "append" ELSE "get_recent_vods"
    /\ UNCHANGED <<now, server, call, typed, files, cache, days, since, token, stored, interval,
                   out, dayText, polls, tokenWrites, path, grant, fetched>>

\* faulty variant: the list is walked from its end
NextChannel_Backwards(chs, n) == chs[Len(chs) - n]
\* the channel of the next turn of `for ch in followed`, n turns being done
NextChannel(chs, n) == chs[n + 1]

\* one turn of the for loop over followed
GetRecentVods ==
    /\ pc = "get_recent_vods"
    /\ LET ch == NextChannel(followed, done)
           recent == get_recent_vods(server.videos[ch.broadcaster_id], since)
       IN  /\ netLog' = Append(netLog, "videos")
           /\ fetched' = Append(fetched, ch.broadcaster_id)
           /\ vods' = vods \o Labelled(ch, recent)
    /\ done' = done + 1
    /\ pc' = IF done + 1 = Len(followed) THEN "append" ELSE "get_recent_vods"
    /\ UNCHANGED <<now, server, call, typed, files, cache, days, since, token, stored, interval,
                   followed, out, dayText, polls, tokenWrites, path, grant>>

\* faulty variant: ids count from 0
NewRecord_ZeroBased ==
    [id |-> Len(cache.requests),
     requested_at |-> iso(now),
     since |-> iso(since),
     timedelta_days |-> days,
     vods |-> vods]

NewRecord ==
    [id |-> Len(cache.requests) + 1,
     requested_at |-> iso(now),
     since |-> iso(since),
     timedelta_days |-> days,
     vods |-> vods]

\* faulty variant: what was fetched so far is saved before the process ends
HelixFails_SavesPartial ==
    /\ pc \in {"get_user_id", "get_followed", "get_recent_vods"}
    /\ Crash
    /\ out' = Say("Traceback")
    /\ cache' = [cache EXCEPT !.requests = Append(@, NewRecord)]
    /\ cacheFile' = save_cache(cache')
    /\ UNCHANGED <<now, server, call, typed, tokenFile, dayText>>

\* a Helix call raises (no connection, or an answer without "data")
HelixFails ==
    /\ pc \in {"get_user_id", "get_followed", "get_recent_vods"}
    /\ Crash
    /\ out' = Say("Traceback")
    /\ UNCHANGED <<now, server, call, typed, files, cache, dayText>>

\* the device-code request or the refresh request raises (no connection, or
\* an answer without the expected keys)
AuthFails ==
    /\ pc \in {"refresh_token", "device_auth"}
    /\ Crash
    /\ out' = Say("Traceback")
    /\ UNCHANGED <<now, server, call, typed, files, cache, dayText>>

\* the request is assembled, appended and the cache saved
AppendRequest ==
    /\ pc = "append"
    /\ cache' = [cache EXCEPT !.requests = Append(@, NewRecord)]
    /\ cacheFile' = save_cache(cache')
    /\ out' = Say("Saved request")
    /\ pc' = "show"
    /\ UNCHANGED <<now, server, call, typed, tokenFile, locals, history>>

\* show_request(cache, req["id"]) of the request just saved
ShowNew(text) ==
    /\ pc = "show"
    /\ LET id == Len(cache.requests)
       IN  /\ typed' = Typed("2", <<>>, cache, id, text)
           /\ IF show_request_ok(cache, id, text)
              THEN /\ pc' = "pause"
                   /\ out' = show_request(cache, id, text)
                   /\ UNCHANGED <<locals, history>>
              ELSE /\ Crash
                   /\ out' = Say("ValueError")
                   /\ UNCHANGED dayText
    /\ UNCHANGED <<now, server, call, files, cache>>

\* the program is started again after it ended
Restart ==
    /\ pc \in {"done", "crashed"}
    /\ cache' = load_cache(cacheFile)
    /\ pc' = "menu"
    /\ out' = Quiet
    /\ ResetLocals
    /\ ResetHistory
    /\ typed' = NoInput
    /\ UNCHANGED <<now, server, call, files>>

Next ==
    \/ Tick
    \/ Quit
    \/ \E text \in Selections : LoadLast(text)
    \/ ListRequests
    \/ \E idText \in IdTexts, text \in Selections : ViewRequest(idText, text)
    \/ InvalidChoice
    \/ Pause
    \/ \E text \in DayTexts : NewRequest(text)
    \/ GetToken
    \/ \E r \in TokenAnswers(server) : RefreshToken(r.status, r.body)
    \/ \E i \in Intervals : DeviceAuth(i)
    \/ \E r \in TokenAnswers(server) : Poll(r.status, r.body)
    \/ GetUserId
    \/ GetFollowed
    \/ GetRecentVods
    \/ HelixFails
    \/ AuthFails
    \/ AppendRequest
    \/ \E text \in Selections : ShowNew(text)
    \/ Restart

Spec == Init /\ [][Next]_vars

\* the authorization server eventually grants a poll of a pending device code
PollIsGranted == \E g \in server.grants : Poll(HttpOk, g)
FairSpec == Spec /\ WF_vars(PollIsGranted)

\* get_token called on any token file, at any time: the inputs of token_valid
TokenFileContents ==
    {[access_token |-> "a0", expires_in |-> e, obtained_at |-> o] :
        e \in (Margin - 1)..(Margin + 2), o \in (StartTime - 2)..Horizon}
    \cup {[access_token |-> "a0", expires_in |-> e, obtained_at |-> o,
           refresh_token |-> "r0"] :
        e \in (Margin - 1)..(Margin + 2), o \in (StartTime - 2)..Horizon}

InitTokenValid ==
    /\ call = NoCall /\ typed = NoInput
    /\ pc = "get_token"
    /\ now \in StartTime..Horizon
    /\ server = ServerShortTokens
    /\ tokenFile \in {json_dumps(EncToken(t)) : t \in TokenFileContents}
    /\ cacheFile = NoFile
    /\ cache = load_cache(cacheFile)
    /\ days = 3 /\ since = StartTime - timedelta(3) /\ dayText = <<<<"3">>>>
    /\ token = <<>> /\ stored = <<>> /\ interval = 0
    /\ followed = <<>> /\ done = 0 /\ vods = <<>>
    /\ out = Quiet
    /\ netLog = <<>> /\ polls = 0 /\ tokenWrites = 0 /\ path = "" /\ grant = <<>>
    /\ fetched = <<>>

NextTokenValid == GetToken \/ Tick
SpecTokenValid == InitTokenValid /\ [][NextTokenValid]_vars

\* ------------------------------------------------------------------------
\* The channel selector applied on its own
\* ------------------------------------------------------------------------
\* the program itself is not running while a function is applied on its own
Idle ==
    /\ pc = "call"
    /\ typed = NoInput
    /\ now = StartTime
    /\ server = ServerOneChannel
    /\ tokenFile = NoFile /\ cacheFile = NoFile /\ cache = EmptyCache
    /\ days = 0 /\ since = 0 /\ token = <<>> /\ stored = <<>> /\ interval = 0
    /\ followed = <<>> /\ done = 0 /\ vods = <<>>
    /\ out = Quiet
    /\ dayText = <<>> /\ netLog = <<>> /\ polls = 0 /\ tokenWrites = 0
    /\ path = "" /\ grant = <<>> /\ fetched = <<>>

IdleVars == <<pc, now, server, files, cache, locals, out, history, typed>>

\* the decimal numeral of n < 100
Numeral(n) ==
    IF n < 10 THEN <<Digits[n + 1]>>
    ELSE <<Digits[(n \div 10) + 1], Digits[(n % 10) + 1]>>

\* the tokens of a selection: a number, a range a-b, nothing, or a blank
SelNumbers == 1..(MaxIndex + 1) \cup {12}
SelTokens ==
    {[kind |-> "single", a |-> n, b |-> n] : n \in SelNumbers}
    \cup {[kind |-> "range", a |-> n, b |-> m] : n \in SelNumbers, m \in SelNumbers}
    \cup {[kind |-> k, a |-> 0, b |-> 0] : k \in {"empty", "blank"}}

SelTokenText(t) ==
    IF t.kind = "single" THEN Numeral(t.a)
    ELSE IF t.kind = "range" THEN Numeral(t.a) \o <<"-">> \o Numeral(t.b)
    ELSE IF t.kind = "blank" THEN <<" ">>
    ELSE <<>>

\* the tokens joined by commas
RECURSIVE SelectionText(_)
SelectionText(ts) ==
    IF ts = <<>> THEN <<>>
    ELSE IF Len(ts) = 1 THEN SelTokenText(ts[1])
    ELSE SelTokenText(ts[1]) \o <<",">> \o SelectionText(Tail(ts))

SelTokenLists == {<<>>} \cup {<<t>> : t \in SelTokens} \cup (SelTokens \X SelTokens)

InitParseSelection ==
    /\ Idle
    /\ \E ts \in SelTokenLists, m \in 0..MaxIndex :
          call = [fn |-> "parse_selection", tokens |-> ts,
                  selection |-> SelectionText(ts), max_index |-> m,
                  returned |-> FALSE, raised |-> FALSE, result |-> {}]

\* parse_selection(selection, max_index) runs to its end
ParseSelection ==
    /\ call.fn = "parse_selection"
    /\ ~call.returned /\ ~call.raised
    /\ call' = IF parse_selection_ok(call.selection)
               THEN [call EXCEPT !.returned = TRUE,
                                 !.result = parse_selection(call.selection,
                                                            call.max_index)]
               ELSE [call EXCEPT !.raised = TRUE]
    /\ UNCHANGED IdleVars

NextParseSelection == ParseSelection
SpecParseSelection == InitParseSelection /\ [][NextParseSelection]_vars

\* the VODs and channel names filter_vods is given
FilterNames == {<<"A">>, <<"a">>, <<"B">>, <<"b">>}
FilterVodPool ==
    {[channel |-> c, title |-> t, url |-> <<"u">>, created_at |-> iso(DayAgo)] :
        c \in FilterNames, t \in {<<"t">>, <<"x">>}}
FilterVodLists == UNION {[1..n -> FilterVodPool] : n \in 0..MaxVods}

InitFilterVods ==
    /\ Idle
    /\ \E vs \in FilterVodLists, inc \in SUBSET FilterNames :
          call = [fn |-> "filter_vods", vods |-> vs, include |-> inc,
                  returned |-> FALSE, result |-> <<>>]

\* filter_vods(vods, include) runs to its end
FilterVods ==
    /\ call.fn = "filter_vods"
    /\ ~call.returned
    /\ call' = [call EXCEPT !.returned = TRUE,
                            !.result = filter_vods(call.vods, call.include)]
    /\ UNCHANGED IdleVars

NextFilterVods == FilterVods
SpecFilterVods == InitFilterVods /\ [][NextFilterVods]_vars

\* ------------------------------------------------------------------------
\* Properties
\* ------------------------------------------------------------------------
InLog(kind) == \E i \in 1..Len(netLog) : netLog[i] = kind
CountLog(kind) == Cardinality({i \in 1..Len(netLog) : netLog[i] = kind})
Requests == cache.requests
LastRequest == Requests[Len(Requests)]

\* C1: when the stored token is present and valid at the moment get_token
\* looks at it, get_token returns that very token, no network request has
\* been issued and the token file is not written.
C1_StoredTokenReused ==
    [][(/\ pc = "get_token" /\ pc' # "get_token"
        /\ exists(tokenFile)
        /\ now < json_loads(tokenFile).obtained_at
                   + json_loads(tokenFile).expires_in - Margin)
       => (/\ pc' = "get_user_id"
           /\ token' = <<json_loads(tokenFile)>>
           /\ netLog' = <<>>
           /\ tokenFile' = tokenFile
           /\ tokenWrites' = 0)]_vars

\* a valid stored token has been reused and the Helix calls are under way
C1_Witness ==
    /\ pc = "get_followed" /\ path = "stored"
    /\ token = <<json_loads(tokenFile)>> /\ netLog = <<"users">>

\* C2: a refresh request is the first request of get_token and is made
\* exactly when the stored token is invalid and carries a refresh token; a
\* granted refresh persists and returns the new token and no device-code
\* request follows; a refused refresh writes nothing and leads to the
\* device-code grant.
C2_RefreshBeforeDevice ==
    /\ \A i \in 1..Len(netLog) : netLog[i] = "refresh" => i = 1
    /\ pc = "refresh_token" =>
          /\ netLog = <<>> /\ tokenWrites = 0
          /\ "refresh_token" \in DOMAIN stored[1]
          /\ ~(now < stored[1].obtained_at + stored[1].expires_in - Margin)
    /\ path = "refresh" =>
          /\ netLog[1] = "refresh"
          /\ ~InLog("device") /\ ~InLog("poll")
          /\ tokenWrites = 1
          /\ grant # <<>>
          /\ token = <<Stamp(grant[1], token[1].obtained_at)>>
          /\ tokenFile = json_dumps(EncToken(token[1]))
    /\ pc \in {"device_auth", "poll"} =>
          /\ tokenWrites = 0
          /\ tokenFile = (IF stored = <<>> THEN NoFile ELSE json_dumps(EncToken(stored[1])))
          /\ InLog("refresh") <=>
                (stored # <<>> /\ "refresh_token" \in DOMAIN stored[1])

\* a refused refresh has led into the device-code grant
C2_Witness ==
    /\ pc = "poll" /\ netLog = <<"refresh", "device">>
    /\ stored # <<>> /\ tokenFile = json_dumps(EncToken(stored[1]))

\* C3: in the device-code grant the token file is not written while polls are
\* refused; when a poll is granted after k refused ones the file has been
\* written once, after the (k+1)-th poll, with the token of that answer.
C3_OneWriteOnGrantedPoll ==
    /\ pc = "poll" => tokenWrites = 0 /\ CountLog("poll") = polls
    /\ path = "device" =>
          /\ tokenWrites = 1
          /\ CountLog("poll") = polls + 1
          /\ grant # <<>>
          /\ token = <<Stamp(grant[1], token[1].obtained_at)>>
          /\ tokenFile = json_dumps(EncToken(token[1]))

\* the third poll was granted after two refused ones
C3_Witness ==
    /\ path = "device" /\ polls = 2 /\ tokenWrites = 1
    /\ netLog = <<"device", "poll", "poll", "poll">>

\* C4: the polling loop of device_auth has no attempt bound: it is left only
\* by returning, and it returns exactly on a poll answered HTTP 200; each turn
\* sleeps the server-given interval before it polls; a refused poll can always
\* be followed by another one; and if the server eventually grants a poll,
\* get_token returns a token.
C4_PollsUntilGranted ==
    /\ [][pc = "poll" =>
            /\ pc' \in {"poll", "get_user_id"}
            /\ (pc' = "get_user_id") <=> (grant = <<>> /\ grant' # <<>>)
            /\ (polls' # polls \/ pc' # pc) => now' = Min(now + interval, Horizon)
            /\ pc' = "get_user_id" => token' # <<>> /\ path' = "device"]_vars
    /\ [](pc = "poll" => ENABLED Poll(ErrorBody.status, ErrorBody))
    /\ (pc = "poll") ~> (path = "device" /\ token # <<>>)

\* the loop is still polling after MaxPolls refused polls
C4_Witness == pc = "poll" /\ polls = MaxPolls /\ CountLog("poll") = MaxPolls

\* C5: the stored token passes token_valid, and get_token returns it, exactly
\* when now < obtained_at + expires_in - 60; at the boundary and after it the
\* token is treated as invalid.
C5_ValidUntilMargin ==
    [][(pc = "get_token" /\ pc' # "get_token") =>
          LET T == json_loads(tokenFile)
          IN  /\ token_valid(T, now) <=> (now < T.obtained_at + T.expires_in - 60)
              /\ (path' = "stored" /\ token' = <<T>>) <=>
                    (now < T.obtained_at + T.expires_in - 60)]_vars

\* a token was looked at exactly at the boundary and not reused
C5_Witness ==
    /\ pc \in {"refresh_token", "device_auth"} /\ stored # <<>>
    /\ now = stored[1].obtained_at + stored[1].expires_in - 60

\* C6: the stored requests carry the ids 1..N in append order, without gaps
\* or duplicates, in memory and in the cache file; looking up an assigned id
\* finds the request with that id, looking up any other id finds nothing.
C6_GaplessIds ==
    /\ \A i \in 1..Len(Requests) : Requests[i].id = i
    /\ load_cache(cacheFile).requests = Requests \/ pc \in {"done", "crashed"}
    /\ \A id \in 0..(MaxRequests + 2) :
          LET k == FindRequest(Requests, id, 1)
              shown == show_request(cache, id, <<>>)
          IN  IF id \in 1..Len(Requests)
              THEN /\ k # 0 /\ Requests[k].id = id
                   /\ shown.msg = "Showing" /\ shown.vods = Requests[k].vods
              ELSE k = 0 /\ shown.msg = "Request not found."

\* two requests were fetched into an empty cache and the second is shown
C6_Witness ==
    /\ Len(Requests) = 2 /\ Requests[1] # OldRequest
    /\ Requests[1].id = 1 /\ Requests[2].id = 2
    /\ pc = "pause" /\ out.msg = "Showing"

\* C7: the cache is append-only: the request sequence changes only by the
\* append of one request at its end, in the step that completes a fetch; that
\* step leaves the cache file equal to the cache in memory, and no other step
\* writes the cache file or alters a stored request.
C7_AppendOnly ==
    [][/\ Requests' # Requests =>
             /\ pc = "append" /\ pc' = "show"
             /\ Len(Requests') = Len(Requests) + 1
             /\ SubSeq(Requests', 1, Len(Requests)) = Requests
       /\ (pc = "append" /\ pc' = "show") =>
             /\ Len(Requests') = Len(Requests) + 1
             /\ exists(cacheFile') /\ json_loads(cacheFile') = cache'
       /\ cacheFile' # cacheFile => pc = "append"]_vars

\* a stored request was viewed through a channel filter that hid some VODs
C7_Witness ==
    /\ pc = "pause" /\ out.msg = "Showing" /\ Len(Requests) = 2
    /\ out.vods # <<>> /\ Len(out.vods) < Len(LastRequest.vods)
    /\ json_loads(cacheFile) = cache

\* the VODs a request must hold: for each followed channel in order, the
\* broadcasts of its listing created at or after since_dt, in listing order,
\* under the channel's broadcaster name
RECURSIVE Flatten(_)
Flatten(seqs) == IF seqs = <<>> THEN <<>> ELSE Head(seqs) \o Flatten(Tail(seqs))

ChannelVods(ch, since_dt) ==
    LET listing == server.videos[ch.broadcaster_id]
        kept == SelectSeq(listing, LAMBDA v : fromisoformat(v.created_at) >= since_dt)
    IN  [i \in 1..Len(kept) |->
            [channel |-> ch.broadcaster_name, title |-> kept[i].title,
             url |-> kept[i].url, created_at |-> kept[i].created_at]]

ExpectedVods(since_dt) ==
    Flatten([i \in 1..Len(server.followed) |->
                ChannelVods(server.followed[i], since_dt)])

\* C8: every request a fetch produced holds exactly the expected VODs for its
\* since; with one followed channel whose broadcasts are 1 and 5 days old, a
\* fetch of 3 days into an empty cache leaves one request, id 1, holding only
\* the 1-day-old broadcast.
C8_VodsWithinWindow ==
    /\ \A i \in 1..Len(Requests) :
          \/ Requests[i] = OldRequest
          \/ Requests[i].vods = ExpectedVods(fromisoformat(Requests[i].since))
    /\ (/\ server = ServerOneChannel /\ Len(Requests) = 1
        /\ Requests[1] # OldRequest /\ Requests[1].timedelta_days = 3)
       => /\ Requests[1].id = 1
          /\ Len(Requests[1].vods) = 1
          /\ Requests[1].vods[1].channel = <<"A">>
          /\ Requests[1].vods[1].created_at = iso(DayAgo)

\* the fetch of 3 days with the 1-day-old and the 5-days-old broadcast
C8_Witness ==
    /\ server = ServerOneChannel /\ pc = "show" /\ days = 3
    /\ Len(Requests) = 1 /\ Requests[1] # OldRequest
    /\ Len(Requests[1].vods) = 1 /\ json_loads(cacheFile) = cache

\* C9 (as claimed): every stored request has since = requested_at minus
\* timedelta_days days.
C9_SinceIsRequestedAtMinusDays ==
    \A i \in 1..Len(Requests) :
        fromisoformat(Requests[i].since) =
            fromisoformat(Requests[i].requested_at)
            - Requests[i].timedelta_days * 86400

\* the day count entered is malformed or out of range
BadDayCount(text) == ~int_ok(text) \/ int(text) < 1

\* C10 (as claimed): a malformed or out-of-range day count does not end the
\* program; the fetch goes on with 3 days and the request appended has
\* timedelta_days = 3.
C10_BadDayCountDefaultsToThree ==
    (dayText # <<>> /\ BadDayCount(dayText[1])) =>
        /\ pc # "crashed"
        /\ days = 3
        /\ pc \in {"show", "pause"} => LastRequest.timedelta_days = 3

\* the indices a token of a selection names
Named(t) ==
    IF t.kind = "single" THEN {t.a}
    ELSE IF t.kind = "range" THEN {i \in SelNumbers \cup 1..12 : t.a <= i /\ i <= t.b}
    ELSE {}

\* C11: on a selection of comma-separated positive integers and ranges a-b,
\* parse_selection returns, without error, exactly the indices 1..max_index
\* that a single token names or that lie in an inclusive range; out-of-range
\* indices, reversed ranges and empty tokens contribute nothing.
C11_ParseSelectionExact ==
    call.fn = "parse_selection" =>
        /\ ~call.raised
        /\ call.returned =>
              call.result =
                  {i \in 1..call.max_index :
                      \E k \in 1..Len(call.tokens) : i \in Named(call.tokens[k])}

\* "1,3-5" with four channels listed gives {1, 3, 4}
C11_Witness ==
    /\ call.fn = "parse_selection" /\ call.returned
    /\ call.selection = <<"1", ",", "3", "-", "5">>
    /\ call.max_index = 4
    /\ call.result = {1, 3, 4}

\* two names are the same but for the case of their letters
SameIgnoringCase(x, y) ==
    /\ Len(x) = Len(y)
    /\ \A i \in 1..Len(x) :
          \/ x[i] = y[i]
          \/ {x[i], y[i]} \in {{"A", "a"}, {"B", "b"}}

\* C12: filter_vods returns vods unchanged for an empty include; otherwise
\* exactly the vods whose channel equals, case-insensitively, a name of
\* include, in their order and unaltered.
C12_FilterByNameIgnoringCase ==
    (call.fn = "filter_vods" /\ call.returned) =>
        call.result =
            IF call.include = {} THEN call.vods
            ELSE SelectSeq(call.vods,
                           LAMBDA v : \E c \in call.include :
                                         SameIgnoringCase(v.channel, c))

\* selecting "a" keeps the VOD of channel "A" and drops that of "B"
C12_Witness ==
    /\ call.fn = "filter_vods" /\ call.returned
    /\ call.include = {<<"a">>}
    /\ Len(call.vods) = 2
    /\ call.vods[1].channel = <<"B">> /\ call.vods[2].channel = <<"A">>
    /\ call.result = <<call.vods[2]>>

\* the id entered at "Enter request ID" is a number no saved request carries
UnknownId(idText) == int_ok(idText) /\ FindRequest(Requests, int(idText), 1) = 0

\* C13: viewing an id that is not in the cache prints "Request not found.",
\* does not end the process, leaves the cache, the cache file and the token
\* file as they are, and the next step is back at the menu.
C13_UnknownIdIsReported ==
    [][/\ (pc = "menu" /\ typed'.choice = "4" /\ UnknownId(typed'.id[1])) =>
                /\ pc' = "pause"
                /\ out' = Say("Request not found.")
                /\ UNCHANGED <<cache, cacheFile, tokenFile>>
       /\ (pc = "pause" /\ out = Say("Request not found.")) =>
                /\ pc' = "menu"
                /\ UNCHANGED <<cache, cacheFile, tokenFile>>]_vars

\* "Request not found." is on the screen although requests are saved
C13_Witness ==
    /\ pc = "pause"
    /\ out = Say("Request not found.")
    /\ Len(Requests) >= 1

\* C14: load_cache gives back the cache save_cache wrote, and the process
\* started again after it ended begins with exactly the requests that were in
\* memory, those of the last completed save.
C14_CacheRoundTrip ==
    /\ [](load_cache(save_cache(cache)) = cache /\ load_cache(cacheFile) = cache)
    /\ [][(pc \in {"done", "crashed"} /\ pc' = "menu") =>
             (cache' = cache /\ cache' = load_cache(cacheFile))]_vars

\* the process has ended after two requests were saved, the second with VODs
C14_Witness ==
    /\ pc \in {"done", "crashed"}
    /\ Len(Requests) = 2 /\ Requests[2].vods # <<>>
    /\ cacheFile = save_cache(cache)
    /\ load_cache(cacheFile) = cache

\* every element of the sequence shown is an element of the sequence stored
ShownFrom(shown, saved) ==
    \A i \in 1..Len(shown) : \E j \in 1..Len(saved) : shown[i] = saved[j]

\* C15: options 1, 3 and 4 issue no network request and leave the token file,
\* the cache file and the cache alone, whatever is entered; files and network
\* are touched only within option 2. Option 1 reports "No saved requests."
\* on an empty cache and otherwise shows the request appended last.
C15_BrowsingIsOffline ==
    [][/\ (pc = "menu" /\ typed'.choice \in {"1", "3", "4"}) =>
             /\ UNCHANGED <<tokenFile, cacheFile, cache, tokenWrites, stored, token>>
             /\ netLog = <<>> /\ netLog' = <<>>
       /\ (pc = "menu" /\ typed'.choice = "1") =>
             IF Requests = <<>>
             THEN pc' = "pause" /\ out' = Say("No saved requests.")
             ELSE pc' = "pause" =>
                     /\ out'.msg = "Showing"
                     /\ ShownFrom(out'.vods, LastRequest.vods)
                     /\ typed'.selection \in {<<>>, << <<>> >>} =>
                            out'.vods = LastRequest.vods
       /\ (files' # files \/ Len(netLog') > Len(netLog)) =>
             (pc \notin {"menu", "pause"} /\ dayText # <<>>)]_vars

\* option 1 has shown the second of two saved requests
C15_Witness ==
    /\ pc = "pause" /\ typed.choice = "1"
    /\ Len(Requests) = 2
    /\ out.vods = Requests[2].vods /\ out.vods # Requests[1].vods

\* the place of a kind of network request in the order of a new request
Rank(kind) ==
    IF kind = "users" THEN 1
    ELSE IF kind = "followed" THEN 2
    ELSE IF kind = "videos" THEN 3
    ELSE 0

\* C16: in a new request the token is obtained before any Helix call, the
\* user-id lookup precedes the followed listing, the videos calls follow the
\* listing in the order of the followed list, the request is appended and the
\* cache file written only after the last videos call, and the new request is
\* displayed only after the file was written.
C16_FetchOrder ==
    /\ [](/\ \A i \in 1..Len(netLog) : \A j \in i..Len(netLog) :
                Rank(netLog[i]) <= Rank(netLog[j])
          /\ InLog("users") => (token # <<>> /\ path # "")
          /\ CountLog("users") <= 1 /\ CountLog("followed") <= 1
          /\ InLog("followed") => InLog("users")
          /\ InLog("videos") => InLog("followed")
          /\ pc # "crashed" =>
                /\ Len(fetched) = CountLog("videos")
                /\ Len(fetched) <= Len(followed)
                /\ \A i \in 1..Len(fetched) : fetched[i] = followed[i].broadcaster_id
          /\ pc \in {"append", "show"} =>
                (InLog("followed") /\ Len(fetched) = Len(followed)))
    /\ [][/\ (cache' # cache \/ cacheFile' # cacheFile) =>
                /\ pc = "append" /\ pc' = "show"
                /\ InLog("followed") /\ Len(fetched) = Len(followed)
          /\ (typed.choice = "" /\ typed'.choice = "2") =>
                /\ pc = "show"
                /\ cacheFile = save_cache(cache) /\ cacheFile' = cacheFile
                /\ LastRequest.vods = vods]_vars

\* the three channels were fetched in the order of the followed list and the
\* request is saved and about to be displayed
C16_Witness ==
    /\ pc = "show"
    /\ netLog = <<"users", "followed", "videos", "videos", "videos">>
    /\ fetched = <<"2", "1", "3">>
    /\ cacheFile = save_cache(cache) /\ LastRequest.vods = vods

\* the steps of a new request before the append
BeforeAppend ==
    {"get_token", "refresh_token", "device_auth", "poll", "get_user_id",
     "get_followed", "get_recent_vods"}

\* C17: a new request that fails before the append (day count, authentication,
\* user-id, followed or videos call) adds no request: the cache and the cache
\* file stay as they were when the request began, and a request is recorded
\* only complete, with the VODs of every followed channel.
C17_AbortedFetchRecordsNothing ==
    [][/\ (pc \in BeforeAppend \/ (pc = "menu" /\ dayText' # <<>>)) =>
             UNCHANGED <<cache, cacheFile>>
       /\ (pc' = "crashed") => UNCHANGED <<cache, cacheFile>>
       /\ (cache' # cache \/ cacheFile' # cacheFile) =>
             /\ Len(fetched) = Len(followed)
             /\ Len(Requests') = Len(Requests) + 1
             /\ LastRequest'.vods = vods
             /\ cacheFile' = save_cache(cache')]_vars

\* the process ended in the third videos call; the file still holds the one
\* request it held before
C17_Witness ==
    /\ pc = "crashed" /\ out = Say("Traceback")
    /\ fetched = <<"2", "1">>
    /\ Len(Requests) = 1
    /\ cacheFile = save_cache([requests |-> <<OldRequest>>])

\* C18: whenever get_token has returned, the token it returned passes
\* token_valid at that moment, whichever path produced it, and the token file
\* holds that token, stamped with the time of the grant.
C18_ReturnedTokenIsValid ==
    pc = "get_user_id" =>
        /\ now < token[1].obtained_at + token[1].expires_in - Margin
        /\ load_token(tokenFile) = token
        /\ path \in {"refresh", "device"} => token[1].obtained_at = now

\* the request the handler that ran last has displayed
ShownRequest ==
    IF typed.choice = "4" THEN Requests[FindRequest(Requests, int(typed.id[1]), 1)]
    ELSE LastRequest

\* the numbered channel list of that request, and the indices the selection
\* entered names within it
ShownChannels == list_channels(ShownRequest.vods)
ShownIndexes == parse_selection(strip(typed.selection[1]), Len(ShownChannels))

\* a selection was entered and was not empty, and the VODs were displayed
SelectionApplied ==
    /\ pc = "pause"
    /\ typed.selection # <<>>
    /\ strip(typed.selection[1]) # <<>>

\* C19: after a non-empty selection the unfiltered VOD list is displayed only
\* if the selection names every listed channel; a selection whose indices are
\* all out of range does not display all VODs.
C19_UnfilteredOnlyIfAllSelected ==
    (SelectionApplied /\ out.vods = ShownRequest.vods) =>
        ShownIndexes = 1..Len(ShownChannels)

\* C20: after a selection naming at least one in-range index the VODs
\* displayed are exactly those whose channel is the entry at a selected index
\* of the channel list (distinct names, sorted case-sensitively).
C20_ExactlySelectedChannels ==
    (SelectionApplied /\ ShownIndexes # {}) =>
        out.vods = SelectSeq(ShownRequest.vods,
                             LAMBDA v : \E i \in ShownIndexes :
                                           v.channel = ShownChannels[i])

====
